---- MODULE Spec2Model ----
(***************************************************************************)
(* RecycLens browser client: image intake (file picker, drag and drop,     *)
(* camera capture), preview, and the POST /predict classification request. *)
(*                                                                         *)
(* The repository holds two upload scripts and two camera scripts:         *)
(*   "static"  : src/static/upload.js and src/static/camera.js             *)
(*   "unnamed" : src/unnamed/part_000, lines 1-222 (upload script) and     *)
(*               lines 223-349 (camera script)                             *)
(* A page loads one upload script and one camera script; uploadScript and  *)
(* cameraScript record which.  Every handler is modelled for both.         *)
(*                                                                         *)
(* The browser's event loop is single threaded: every action below is one  *)
(* task (an event handler or the continuation of an await / a callback),   *)
(* run to completion.                                                      *)
(***************************************************************************)
EXTENDS Integers, Sequences, FiniteSets, TLC

(***************************************************************************)
(* Bounds of the model.                                                    *)
(***************************************************************************)
MaxPending == 2   \* asynchronous operations outstanding at once: awaited
                  \* promises and callbacks that have not run yet
MaxStreams == 2   \* media streams in use at once

(***************************************************************************)
(* Files.  A file is identified by a string; FileName gives file.name as   *)
(* a sequence of characters.                                               *)
(***************************************************************************)
NoFile == "null"   \* selectedFile = null

UpperJpg    == "a.b.JPG"               \* accepted: the last piece is JPG
PngTxt      == "png.txt"               \* rejected: the last piece is txt
BareJpeg    == "jpeg"                  \* a name without a dot: split gives one
                                       \* piece, the whole name
CaptureFile == "camera_capture_1.jpg"  \* built by capturePhoto

UserFiles == {UpperJpg, PngTxt, BareJpeg}

\* `camera_capture_${timestamp}.jpg`
CaptureName(timestamp) ==
    <<"c","a","m","e","r","a","_","c","a","p","t","u","r","e","_">>
        \o timestamp \o <<".","j","p","g">>

\* file.name, character by character
FileName(f) ==
    CASE f = UpperJpg    -> <<"a",".","b",".","J","P","G">>
      [] f = PngTxt      -> <<"p","n","g",".","t","x","t">>
      [] f = BareJpeg    -> <<"j","p","e","g">>
      [] f = CaptureFile -> CaptureName(<<"1">>)

(***************************************************************************)
(* String functions of handleFile's validation:                            *)
(*     file.name.split('.').pop().toLowerCase()                            *)
(***************************************************************************)
RECURSIVE Split(_, _)
\* String.prototype.split: the pieces of s between occurrences of sep.
Split(s, sep) ==
    IF \A i \in 1..Len(s) : s[i] # sep
    THEN <<s>>
    ELSE LET k == CHOOSE i \in 1..Len(s) :
                      s[i] = sep /\ \A j \in 1..(i - 1) : s[j] # sep
         IN  <<SubSeq(s, 1, k - 1)>> \o Split(SubSeq(s, k + 1, Len(s)), sep)

\* Array.prototype.pop: the last element.
Pop(a) == a[Len(a)]

LowerOf(c) ==
    CASE c = "J" -> "j"
      [] c = "P" -> "p"
      [] c = "G" -> "g"
      [] OTHER   -> c

\* String.prototype.toLowerCase
ToLowerCase(s) == [i \in 1..Len(s) |-> LowerOf(s[i])]

allowedExtensions ==
    << <<"p","n","g">>, <<"j","p","g">>, <<"j","p","e","g">> >>

fileExtension(f) == ToLowerCase(Pop(Split(FileName(f), ".")))

\* Array.prototype.includes
Includes(a, x) == \E i \in 1..Len(a) : a[i] = x


(***************************************************************************)
(* Alerts.  An alert is the sequence of the pieces of its message.         *)
(***************************************************************************)
NoAlert           == <<>>
InvalidFileType   == <<"Invalid file type. Please upload a PNG, JPG, or JPEG image.">>
NoImageSelected   == <<"Please select an image first.">>
NetworkFailure    == <<"A network error occurred during classification. Check console.">>
DropFailed        == <<"Drag & drop failed. Please click to select a file.">>
CameraError       == <<"Unable to access camera. Please check permissions.">>
BlobFailed        == <<"Failed to create image file from capture.">>
CaptureFailed     == <<"Failed to capture photo. Check console for details.">>
\* A classifyImage whose else branch shows nothing.
ClassificationError_silent(data) == NoAlert

\* `Classification Error: ${data.error || 'Unknown error'}`
ClassificationError(data) ==
    <<"Classification Error: ", IF data.error = "" THEN "Unknown error" ELSE data.error>>

(***************************************************************************)
(* The JSON bodies the server can answer with (section 6 of the spec).     *)
(***************************************************************************)
Payloads ==
    { [success |-> TRUE,  prediction |-> "HDPE", error |-> ""],
      [success |-> TRUE,  prediction |-> "PET",  error |-> ""],
      [success |-> FALSE, prediction |-> "",     error |-> "model unavailable"],
      [success |-> FALSE, prediction |-> "",     error |-> ""] }

NoStream == 0              \* cameraStream = null
StreamIds == 1..MaxStreams
Slots     == 1..MaxPending

VARIABLES
    uploadScript,        \* "static" | "unnamed": the upload script the page loads
    cameraScript,        \* "static" | "unnamed": the camera script the page loads
    htmlSubmitDisabled,  \* the disabled attribute of #submitBtn in the page markup
    \* ---- upload script ----
    selectedFile,        \* let selectedFile
    submitBtn,           \* #submitBtn: disabled, .spinner display, .button-text
    preview,             \* #preview: backgroundImage, class active, aria-hidden
    dropzoneText,        \* .dropzone-text: display, textContent
    uploadForm,          \* #uploadForm style.display
    resultsPanel,        \* #resultsPanel style.display
    predictionText,      \* #predictionText textContent
    readers,             \* FileReaders whose onload has not run yet
    requests,            \* classifyImage calls suspended at an await
    \* ---- camera script ----
    cameraStream,        \* let cameraStream
    cameraFeed,          \* #cameraFeed srcObject
    liveStreams,         \* streams obtained whose tracks have not been stopped
    gumPending,          \* startCamera calls suspended at await getUserMedia
    playPending,         \* startCamera calls suspended at await play(), by stream
    cameraInterface,     \* #cameraInterface style.display
    dropzone,            \* #dropzone style.display
    btnScan,             \* .btn-scan style.display
    toBlobPending,       \* toBlob callbacks not run yet, by the session captured
    \* ---- observation of the last task ----
    alert,               \* the alert the last task showed
    event                \* the handler the last task ran and the calls it made

config     == <<uploadScript, cameraScript, htmlSubmitDisabled>>
uploadVars == <<selectedFile, submitBtn, preview, dropzoneText, uploadForm,
                resultsPanel, predictionText, readers, requests>>
cameraVars == <<cameraStream, cameraFeed, liveStreams, gumPending, playPending,
                cameraInterface, dropzone, btnScan, toBlobPending>>
vars       == <<config, uploadVars, cameraVars, alert, event>>

Idle == "idle"

Event(op, file, calls) == [op |-> op, file |-> file, calls |-> calls]

InFlight == Cardinality({i \in Slots : requests[i] # Idle})

\* The asynchronous operations outstanding.
Pending ==
    gumPending + Cardinality(playPending) + Len(toBlobPending) + Len(readers)
        + InFlight

(***************************************************************************)
(* The page after DOMContentLoaded (initUpload and initCamera have run).   *)
(* The markup is not part of the sources: the initial disabled attribute   *)
(* of the submit button is left open; the camera interface starts hidden   *)
(* and nothing is selected.                                                *)
(***************************************************************************)
PageLoaded ==
    /\ selectedFile = NoFile
    /\ submitBtn = [disabled |-> htmlSubmitDisabled, spinner |-> "none",
                    text |-> "Classify Plastic"]
    /\ preview = [backgroundImage |-> "none", active |-> FALSE, ariaHidden |-> TRUE]
    /\ dropzoneText = [display |-> "inline", textContent |-> "helper"]
    /\ uploadForm = "block"
    /\ resultsPanel = "none"
    /\ predictionText = ""
    /\ readers = <<>>
    /\ requests = [i \in Slots |-> Idle]
    /\ cameraStream = NoStream
    /\ cameraFeed = NoStream
    /\ liveStreams = {}
    /\ gumPending = 0
    /\ playPending = {}
    /\ cameraInterface = "none"
    /\ dropzone = "flex"
    /\ btnScan = "block"
    /\ toBlobPending = <<>>
    /\ alert = NoAlert

\* The markup of the page is not among the sources.  Section 4.4 of the
\* specification has the submit action disabled in the Empty mode.
MarkupSubmitDisabled == TRUE

Init ==
    /\ uploadScript \in {"static", "unnamed"}
    /\ cameraScript \in {"static", "unnamed"}
    /\ htmlSubmitDisabled = MarkupSubmitDisabled
    /\ PageLoaded
    /\ event = Event("load", NoFile, <<>>)

\* The same page, whatever the markup says about the submit button.
InitAnyMarkup ==
    /\ uploadScript \in {"static", "unnamed"}
    /\ cameraScript \in {"static", "unnamed"}
    /\ htmlSubmitDisabled \in BOOLEAN
    /\ PageLoaded
    /\ event = Event("load", NoFile, <<>>)


(***************************************************************************)
(*                          The upload script                              *)
(***************************************************************************)

\* showLoading(button): the button after the call
showLoading(button) ==
    [button EXCEPT !.disabled = TRUE, !.spinner = "inline-block",
                   !.text = "Classifying..."]

\* hideLoading(button): the button after the call
hideLoading(button) ==
    [button EXCEPT !.disabled = FALSE, !.spinner = "none",
                   !.text = "Classify Plastic"]

\* displayResults(data)
displayResults(data) ==
    /\ predictionText' = data.prediction
    /\ uploadForm' = "none"
    /\ resultsPanel' = "flex"
    /\ preview' = [backgroundImage |-> "none", active |-> FALSE, ariaHidden |-> TRUE]

\* The slot a new request is kept in.
FreeSlot == CHOOSE i \in Slots :
                /\ requests[i] = Idle
                /\ \A j \in 1..(i - 1) : requests[j] # Idle

\* handleFile with the assignment of selectedFile moved above the validation.
handleFile_selectFirst(file, autoClassify) ==
    IF ~Includes(allowedExtensions, fileExtension(file))
    THEN /\ alert' = InvalidFileType
         /\ selectedFile' = file
         /\ UNCHANGED <<readers, submitBtn>>
    ELSE /\ Pending < MaxPending
         /\ selectedFile' = file
         /\ readers' = Append(readers, [file |-> file, autoClassify |-> autoClassify])
         /\ alert' = NoAlert
         /\ UNCHANGED submitBtn

\* handleFile of src/static/upload.js, up to reader.readAsDataURL(file).
handleFile(file, autoClassify) ==
    IF ~Includes(allowedExtensions, fileExtension(file))
    THEN /\ alert' = InvalidFileType
         /\ UNCHANGED <<selectedFile, readers, submitBtn>>
    ELSE /\ Pending < MaxPending
         /\ selectedFile' = file
         /\ readers' = Append(readers, [file |-> file, autoClassify |-> autoClassify])
         /\ alert' = NoAlert
         /\ UNCHANGED submitBtn

\* handleFile of src/unnamed/part_000 with the enabling of the submit button
\* moved above the validation.
handleFile_unnamed_enablesFirst(file) ==
    IF ~Includes(allowedExtensions, fileExtension(file))
    THEN /\ alert' = InvalidFileType
         /\ submitBtn' = [submitBtn EXCEPT !.disabled = FALSE]
         /\ UNCHANGED <<selectedFile, readers>>
    ELSE /\ Pending < MaxPending
         /\ selectedFile' = file
         /\ readers' = Append(readers, [file |-> file, autoClassify |-> FALSE])
         /\ submitBtn' = [submitBtn EXCEPT !.disabled = FALSE]
         /\ alert' = NoAlert

\* handleFile of src/unnamed/part_000: one parameter, and the submit button
\* is enabled before the preview is decoded.
handleFile_unnamed(file) ==
    IF ~Includes(allowedExtensions, fileExtension(file))
    THEN /\ alert' = InvalidFileType
         /\ UNCHANGED <<selectedFile, readers, submitBtn>>
    ELSE /\ Pending < MaxPending
         /\ selectedFile' = file
         /\ readers' = Append(readers, [file |-> file, autoClassify |-> FALSE])
         /\ submitBtn' = [submitBtn EXCEPT !.disabled = FALSE]
         /\ alert' = NoAlert

\* window.handleFile(file, autoClassify): the handleFile of the loaded script.
\* A second argument passed to the one-parameter handleFile is ignored.
windowHandleFile(file, autoClassify) ==
    IF uploadScript = "static"
    THEN handleFile(file, autoClassify)
    ELSE handleFile_unnamed(file)

\* The calls handleFile makes.
HandleFileCalls(file) ==
    IF Includes(allowedExtensions, fileExtension(file))
    THEN <<"handleFile", "readAsDataURL">>
    ELSE <<"handleFile", "alert">>

\* classifyImage with showLoading moved above the check of selectedFile.
classifyImage_loadingFirst(button) ==
    IF selectedFile = NoFile
    THEN /\ alert' = NoImageSelected
         /\ submitBtn' = showLoading(button)
         /\ UNCHANGED requests
    ELSE /\ submitBtn' = showLoading(button)
         /\ requests' = [requests EXCEPT ![FreeSlot] = "fetch"]
         /\ alert' = NoAlert

\* classifyImage, from its entry to the await of fetch; button is the state
\* of the submit button when it is called.
classifyImage(button) ==
    IF selectedFile = NoFile
    THEN /\ alert' = NoImageSelected
         /\ submitBtn' = button
         /\ UNCHANGED requests
    ELSE /\ submitBtn' = showLoading(button)
         /\ requests' = [requests EXCEPT ![FreeSlot] = "fetch"]
         /\ alert' = NoAlert

\* The body of the request: formData.append('file', selectedFile), built
\* when classifyImage runs.
formData == [file |-> selectedFile]

\* The calls classifyImage makes up to the await of fetch.
ClassifyCalls ==
    IF selectedFile = NoFile THEN <<"classifyImage", "alert">>
                             ELSE <<"classifyImage", "showLoading", "fetch">>

\* classifyImage without its finally block.
finally_missing(button) == button

\* The finally block of classifyImage.
finally(button) == hideLoading(button)

\* handleDrop(e): a drop on the dropzone carrying the files e.dataTransfer.files
HandleDrop(files) ==
    /\ dropzone # "none" /\ uploadForm # "none"
    /\ IF Len(files) > 0
       THEN /\ windowHandleFile(files[1], FALSE)
            /\ event' = Event("handleDrop", files[1], HandleFileCalls(files[1]))
       ELSE /\ alert' = IF uploadScript = "static" THEN DropFailed ELSE NoAlert
            /\ event' = Event("handleDrop", NoFile,
                              IF uploadScript = "static" THEN <<"alert">> ELSE <<>>)
            /\ UNCHANGED <<selectedFile, readers, submitBtn>>
    /\ UNCHANGED <<config, preview, dropzoneText, uploadForm, resultsPanel,
                   predictionText, requests, cameraVars>>

\* The click listener of the dropzone: it opens the file picker only while
\* nothing is selected.
DropzoneClick ==
    /\ dropzone # "none" /\ uploadForm # "none"
    /\ event' = Event("dropzoneClick", NoFile,
                      IF selectedFile = NoFile THEN <<"fileInput.click">> ELSE <<>>)
    /\ alert' = NoAlert
    /\ UNCHANGED <<config, uploadVars, cameraVars>>

\* handleFileInputChange(e): the change event of the file input, with the
\* file the user picked.
HandleFileInputChange(file) ==
    /\ dropzone # "none" /\ uploadForm # "none"
    /\ windowHandleFile(file, FALSE)
    /\ event' = Event("handleFileInputChange", file, HandleFileCalls(file))
    /\ UNCHANGED <<config, preview, dropzoneText, uploadForm, resultsPanel,
                   predictionText, requests, cameraVars>>

\* reader.onload of the static script, for the i-th pending reader.
ReaderOnload(i) ==
    LET r == readers[i]
        enabled == [submitBtn EXCEPT !.disabled = FALSE]
    IN  /\ i <= Len(readers)
        /\ uploadScript = "static"
        /\ preview' = [backgroundImage |-> r.file, active |-> TRUE, ariaHidden |-> FALSE]
        /\ dropzoneText' = [dropzoneText EXCEPT !.display = "none"]
        /\ IF r.autoClassify
           THEN /\ classifyImage(enabled)
                /\ event' = Event("onload", r.file, ClassifyCalls)
           ELSE /\ submitBtn' = enabled
                /\ alert' = NoAlert
                /\ event' = Event("onload", r.file, <<>>)
                /\ UNCHANGED requests
        /\ readers' = SubSeq(readers, 1, i - 1) \o SubSeq(readers, i + 1, Len(readers))
        /\ UNCHANGED <<config, selectedFile, uploadForm, resultsPanel, predictionText,
                       cameraVars>>

\* reader.onload of src/unnamed/part_000.
ReaderOnload_unnamed(i) ==
    LET r == readers[i]
    IN  /\ i <= Len(readers)
        /\ uploadScript = "unnamed"
        /\ preview' = [backgroundImage |-> r.file, active |-> TRUE, ariaHidden |-> FALSE]
        /\ dropzoneText' = [dropzoneText EXCEPT !.textContent = r.file]
        /\ alert' = NoAlert
        /\ event' = Event("onload", r.file, <<>>)
        /\ readers' = SubSeq(readers, 1, i - 1) \o SubSeq(readers, i + 1, Len(readers))
        /\ UNCHANGED <<config, selectedFile, submitBtn, uploadForm, resultsPanel,
                       predictionText, requests, cameraVars>>

\* The submit event of the form: the user pressed the enabled submit button.
Submit ==
    /\ ~submitBtn.disabled /\ uploadForm # "none"
    /\ selectedFile # NoFile => Pending < MaxPending
    /\ classifyImage(submitBtn)
    /\ event' = Event("submit", selectedFile, ClassifyCalls)
    /\ UNCHANGED <<config, selectedFile, preview, dropzoneText, uploadForm, resultsPanel,
                   predictionText, readers, cameraVars>>

\* await fetch(...) resolves with a response: response.json() is awaited.
FetchResolve(slot) ==
    /\ requests[slot] = "fetch"
    /\ requests' = [requests EXCEPT ![slot] = "json"]
    /\ alert' = NoAlert
    /\ event' = Event("fetch resolved", NoFile, <<"response.json">>)
    /\ UNCHANGED <<config, selectedFile, submitBtn, preview, dropzoneText, uploadForm,
                   resultsPanel, predictionText, readers, cameraVars>>

\* await fetch(...) throws: the catch block and the finally block.
FetchReject(slot) ==
    /\ requests[slot] = "fetch"
    /\ alert' = NetworkFailure
    /\ submitBtn' = finally(submitBtn)
    /\ requests' = [requests EXCEPT ![slot] = Idle]
    /\ event' = Event("fetch rejected", NoFile, <<"alert", "hideLoading">>)
    /\ UNCHANGED <<config, selectedFile, preview, dropzoneText, uploadForm,
                   resultsPanel, predictionText, readers, cameraVars>>

\* The continuation of response.json() with the test of response.ok left out.
JsonResolve_ignoresStatus(slot, ok, data) ==
    /\ requests[slot] = "json"
    /\ IF data.success
       THEN /\ displayResults(data)
            /\ alert' = NoAlert
            /\ event' = Event("json resolved", NoFile,
                              <<"displayResults", "hideLoading">>)
       ELSE /\ alert' = ClassificationError(data)
            /\ event' = Event("json resolved", NoFile,
                              <<"alert", "hideLoading">>)
            /\ UNCHANGED <<predictionText, uploadForm, resultsPanel, preview>>
    /\ submitBtn' = finally(submitBtn)
    /\ requests' = [requests EXCEPT ![slot] = Idle]
    /\ UNCHANGED <<config, selectedFile, dropzoneText, readers, cameraVars>>

\* await response.json() resolves with data: the rest of the try block and
\* the finally block.  ok is response.ok, which is first read here.
JsonResolve(slot, ok, data) ==
    /\ requests[slot] = "json"
    /\ IF ok /\ data.success
       THEN /\ displayResults(data)
            /\ alert' = NoAlert
            /\ event' = Event("json resolved", NoFile,
                              <<"displayResults", "hideLoading">>)
       ELSE /\ alert' = ClassificationError(data)
            /\ event' = Event("json resolved", NoFile,
                              <<"alert", "hideLoading">>)
            /\ UNCHANGED <<predictionText, uploadForm, resultsPanel, preview>>
    /\ submitBtn' = finally(submitBtn)
    /\ requests' = [requests EXCEPT ![slot] = Idle]
    /\ UNCHANGED <<config, selectedFile, dropzoneText, readers, cameraVars>>

\* await response.json() throws (the body is not JSON): catch and finally.
JsonReject(slot) ==
    /\ requests[slot] = "json"
    /\ alert' = NetworkFailure
    /\ submitBtn' = finally(submitBtn)
    /\ requests' = [requests EXCEPT ![slot] = Idle]
    /\ event' = Event("json rejected", NoFile, <<"alert", "hideLoading">>)
    /\ UNCHANGED <<config, selectedFile, preview, dropzoneText, uploadForm,
                   resultsPanel, predictionText, readers, cameraVars>>

\* The reset button: window.location.reload().  The page and its scripts
\* start again; pending callbacks are dropped and the browser releases the
\* camera.
Reset ==
    /\ selectedFile' = NoFile
    /\ submitBtn' = [disabled |-> htmlSubmitDisabled, spinner |-> "none",
                     text |-> "Classify Plastic"]
    /\ preview' = [backgroundImage |-> "none", active |-> FALSE, ariaHidden |-> TRUE]
    /\ dropzoneText' = [display |-> "inline", textContent |-> "helper"]
    /\ uploadForm' = "block"
    /\ resultsPanel' = "none"
    /\ predictionText' = ""
    /\ readers' = <<>>
    /\ requests' = [i \in Slots |-> Idle]
    /\ cameraStream' = NoStream
    /\ cameraFeed' = NoStream
    /\ liveStreams' = {}
    /\ gumPending' = 0
    /\ playPending' = {}
    /\ cameraInterface' = "none"
    /\ dropzone' = "flex"
    /\ btnScan' = "block"
    /\ toBlobPending' = <<>>
    /\ alert' = NoAlert
    /\ event' = Event("reload", NoFile, <<"reload">>)
    /\ UNCHANGED config


(***************************************************************************)
(*                          The camera script                              *)
(***************************************************************************)

\* stopCamera()
stopCamera ==
    /\ liveStreams' = IF cameraStream # NoStream THEN liveStreams \ {cameraStream}
                                                 ELSE liveStreams
    /\ cameraStream' = NoStream
    /\ cameraFeed' = NoStream
    /\ cameraInterface' = "none"
    /\ dropzone' = "flex"
    /\ btnScan' = "block"

\* The calls of a stopCamera without its `if (cameraStream)`.
StopCalls_unguarded == <<"stopCamera", "track.stop">>

\* The calls stopCamera makes.
StopCalls == IF cameraStream # NoStream THEN <<"stopCamera", "track.stop">>
                                        ELSE <<"stopCamera">>

\* startCamera, from the click on the scan button to the await of getUserMedia.
StartCamera ==
    /\ btnScan # "none"
    /\ Pending < MaxPending
    /\ gumPending' = gumPending + 1
    /\ alert' = NoAlert
    /\ event' = Event("startCamera", NoFile, <<"getUserMedia">>)
    /\ UNCHANGED <<config, uploadVars, cameraStream, cameraFeed, liveStreams,
                   playPending, cameraInterface, dropzone, btnScan, toBlobPending>>

\* The streams something still refers to.
InUse == liveStreams \cup playPending
             \cup {toBlobPending[i] : i \in 1..Len(toBlobPending)}

\* The stream a granted getUserMedia call returns: a new one.
NewStream == CHOOSE s \in StreamIds :
                 s \notin InUse /\ \A t \in 1..(s - 1) : t \in InUse

\* await getUserMedia resolves: the stream is stored, attached to the video
\* element and play() is awaited.  Attaching a stream starts a new load of
\* the video element.
GumResolve ==
    /\ gumPending > 0
    /\ \E s \in StreamIds : s \notin InUse
    /\ gumPending' = gumPending - 1
    /\ cameraStream' = NewStream
    /\ liveStreams' = liveStreams \cup {NewStream}
    /\ cameraFeed' = NewStream
    /\ playPending' = playPending \cup {NewStream}
    /\ alert' = NoAlert
    /\ event' = Event("getUserMedia resolved", NoFile, <<"play">>)
    /\ UNCHANGED <<config, uploadVars, cameraInterface, dropzone, btnScan, toBlobPending>>

\* await getUserMedia throws: the catch block.
GumReject ==
    /\ gumPending > 0
    /\ gumPending' = gumPending - 1
    /\ alert' = CameraError
    /\ stopCamera
    /\ event' = Event("getUserMedia rejected", NoFile, <<"alert">> \o StopCalls)
    /\ UNCHANGED <<config, uploadVars, playPending, toBlobPending>>

\* await cameraFeed.play() resolves for the start that attached stream s;
\* it can only while s is still what the video element plays.
PlayResolve(s) ==
    /\ s \in playPending
    /\ cameraFeed = s
    /\ playPending' = playPending \ {s}
    /\ cameraInterface' = "flex"
    /\ dropzone' = "none"
    /\ btnScan' = "none"
    /\ alert' = NoAlert
    /\ event' = Event("play resolved", NoFile, <<>>)
    /\ UNCHANGED <<config, uploadVars, cameraStream, cameraFeed, liveStreams,
                   gumPending, toBlobPending>>

\* await cameraFeed.play() throws for the start that attached stream s (the
\* load was replaced, or playback was refused): the catch block.
PlayReject(s) ==
    /\ s \in playPending
    /\ playPending' = playPending \ {s}
    /\ alert' = CameraError
    /\ stopCamera
    /\ event' = Event("play rejected", NoFile, <<"alert">> \o StopCalls)
    /\ UNCHANGED <<config, uploadVars, gumPending, toBlobPending>>

\* A call of stopCamera() on its own (the function is global to the page).
StopCameraCall ==
    /\ stopCamera
    /\ alert' = NoAlert
    /\ event' = Event("stopCamera", NoFile, StopCalls)
    /\ UNCHANGED <<config, uploadVars, gumPending, playPending, toBlobPending>>

\* capturePhoto without its first line, the return when cameraStream is null.
CapturePhoto_unguarded(threw) ==
    /\ IF threw
       THEN /\ alert' = CaptureFailed
            /\ event' = Event("capturePhoto", NoFile, <<"drawImage", "alert">>)
            /\ UNCHANGED toBlobPending
       ELSE /\ Pending < MaxPending
            /\ toBlobPending' = Append(toBlobPending, cameraStream)
            /\ alert' = NoAlert
            /\ event' = Event("capturePhoto", NoFile, <<"drawImage", "toBlob">>)
    /\ UNCHANGED <<config, uploadVars, cameraStream, cameraFeed, liveStreams, gumPending,
                   playPending, cameraInterface, dropzone, btnScan>>

\* capturePhoto(): the click on the snap button.  threw tells whether
\* drawing the frame throws.
CapturePhoto(threw) ==
    /\ IF cameraStream = NoStream
       THEN /\ ~threw
            /\ alert' = NoAlert
            /\ event' = Event("capturePhoto", NoFile, <<>>)
            /\ UNCHANGED toBlobPending
       ELSE IF threw
       THEN /\ alert' = CaptureFailed
            /\ event' = Event("capturePhoto", NoFile, <<"drawImage", "alert">>)
            /\ UNCHANGED toBlobPending
       ELSE /\ Pending < MaxPending
            /\ toBlobPending' = Append(toBlobPending, cameraStream)
            /\ alert' = NoAlert
            /\ event' = Event("capturePhoto", NoFile, <<"drawImage", "toBlob">>)
    /\ UNCHANGED <<config, uploadVars, cameraStream, cameraFeed, liveStreams, gumPending,
                   playPending, cameraInterface, dropzone, btnScan>>

\* The second argument the camera script passes to window.handleFile:
\* src/static/camera.js passes none, src/unnamed/part_000 passes true.
CaptureAutoClassify == cameraScript = "unnamed"

\* The toBlob callback; blob tells whether the canvas could be encoded.
ToBlobCallback(blob) ==
    /\ Len(toBlobPending) > 0
    /\ toBlobPending' = Tail(toBlobPending)
    /\ IF blob
       THEN /\ stopCamera
            /\ windowHandleFile(CaptureFile, CaptureAutoClassify)
            /\ event' = Event("toBlob callback", CaptureFile,
                              StopCalls \o HandleFileCalls(CaptureFile))
       ELSE /\ alert' = BlobFailed
            /\ event' = Event("toBlob callback", NoFile, <<"alert">>)
            /\ UNCHANGED <<selectedFile, readers, submitBtn, cameraStream, cameraFeed,
                           liveStreams, cameraInterface, dropzone, btnScan>>
    /\ UNCHANGED <<config, preview, dropzoneText, uploadForm, resultsPanel,
                   predictionText, requests, gumPending, playPending>>

(***************************************************************************)
(*                          The specification                              *)
(***************************************************************************)
Next ==
    \/ \E f \in UserFiles : HandleDrop(<<f>>)
    \/ HandleDrop(<<>>)
    \/ DropzoneClick
    \/ \E f \in UserFiles : HandleFileInputChange(f)
    \/ \E i \in 1..MaxPending : ReaderOnload(i)
    \/ \E i \in 1..MaxPending : ReaderOnload_unnamed(i)
    \/ Submit
    \/ \E i \in Slots : FetchResolve(i)
    \/ \E i \in Slots : FetchReject(i)
    \/ \E i \in Slots, ok \in BOOLEAN, data \in Payloads : JsonResolve(i, ok, data)
    \/ \E i \in Slots : JsonReject(i)
    \/ Reset
    \/ StartCamera
    \/ GumResolve
    \/ GumReject
    \/ \E s \in StreamIds : PlayResolve(s)
    \/ \E s \in StreamIds : PlayReject(s)
    \/ StopCameraCall
    \/ \E threw \in BOOLEAN : CapturePhoto(threw)
    \/ \E blob \in BOOLEAN : ToBlobCallback(blob)

Spec == Init /\ [][Next]_vars

\* The browser settles every fetch and every body read, with a result or
\* with an error.
Settle(slot) ==
    \/ FetchResolve(slot)
    \/ FetchReject(slot)
    \/ \E ok \in BOOLEAN, data \in Payloads : JsonResolve(slot, ok, data)
    \/ JsonReject(slot)

SpecAnyMarkup == InitAnyMarkup /\ [][Next]_vars

FairSpec == SpecAnyMarkup /\ \A slot \in Slots : WF_vars(Settle(slot))


(***************************************************************************)
(*                    The user interface modes (4.4)                       *)
(***************************************************************************)
CameraActive == cameraInterface = "flex"
ResultShown  == resultsPanel = "flex"
PreviewReady == preview.active
Empty        == ~CameraActive /\ ~ResultShown /\ ~PreviewReady

Loading(button) == button.spinner = "inline-block" /\ button.text = "Classifying..."

\* The extension of a file name, read off the name itself: the characters
\* after its last dot, in lower case; a name without a dot has none.
Extension(f) ==
    LET n    == FileName(f)
        dots == {i \in 1..Len(n) : n[i] = "."}
    IN  IF dots = {} THEN <<>>
        ELSE LET k == CHOOSE i \in dots : \A j \in dots : j <= i
             IN  ToLowerCase(SubSeq(n, k + 1, Len(n)))

ImageExtensions == { <<"p","n","g">>, <<"j","p","g">>, <<"j","p","e","g">> }

(***************************************************************************)
(*                              The claims                                 *)
(***************************************************************************)

\* C1: capture always tears down the camera session.  When capturePhoto has
\* run with an active session (the camera interface shown, its stream live)
\* and its toBlob callback has run (with a blob or with null), or its catch
\* block has run, cameraStream is null and the stream of that session is no
\* longer live.
C1_CaptureTearsDown ==
    [][ /\ ( /\ event'.op = "toBlob callback"
             /\ CameraActive /\ cameraStream = Head(toBlobPending) ) =>
              cameraStream' = NoStream /\ Head(toBlobPending) \notin liveStreams'
        /\ ( /\ event'.op = "capturePhoto" /\ alert' = CaptureFailed
             /\ CameraActive ) =>
              cameraStream' = NoStream /\ cameraStream \notin liveStreams' ]_vars

\* C2: at most one capture session is active at a time.  In every reachable
\* state at most one obtained stream has tracks that were not stopped, and it
\* is the stream cameraStream refers to.
C2_OneSession ==
    /\ Cardinality(liveStreams) <= 1
    /\ liveStreams \subseteq {cameraStream}

\* C3: at most one classification request is in flight at a time.  In every
\* reachable state at most one POST /predict has been issued and not settled.
C3_OneRequest == InFlight <= 1

\* C4: while a classification request is in flight the submit button is
\* disabled and shows the busy indicator.
C4_BusyWhileInFlight ==
    InFlight > 0 => submitBtn.disabled /\ Loading(submitBtn)

\* C5: the busy indicator is reverted exactly once when a request settles,
\* whatever the outcome, and every request settles.  A task that ends a
\* classifyImage call runs hideLoading once and leaves the submit button
\* enabled and not loading; no other task runs hideLoading; every request in
\* flight is eventually no longer in flight.
C5_Settles(i) == requests[i] # Idle /\ requests'[i] = Idle /\ event'.op # "reload"

C5_HideLoadingCalls(calls) == Cardinality({k \in 1..Len(calls) : calls[k] = "hideLoading"})

C5_LoadingReverted ==
    /\ [][ /\ (\E i \in Slots : C5_Settles(i)) =>
                 /\ ~submitBtn'.disabled
                 /\ submitBtn'.spinner = "none"
                 /\ submitBtn'.text = "Classify Plastic"
                 /\ C5_HideLoadingCalls(event'.calls) = 1
                 /\ InFlight' = InFlight - 1
           /\ ~(\E i \in Slots : C5_Settles(i)) =>
                 C5_HideLoadingCalls(event'.calls) = 0 ]_vars
    /\ \A i \in Slots : (requests[i] # Idle) ~> (requests[i] = Idle)

\* Witness of C5: a response whose body was not JSON has just been handled,
\* the button is enabled again and nothing is in flight.
C5_Witness ==
    /\ event.op = "json rejected"
    /\ alert = NetworkFailure
    /\ ~submitBtn.disabled /\ ~Loading(submitBtn)
    /\ InFlight = 0

\* C6: auto-submit on capture.  The toBlob callback of a successful capture
\* hands the captured file to handleFile with auto-submit requested, and the
\* task that applies its preview issues the classification request.
C6_AutoSubmitOnCapture ==
    [][ /\ (event'.op = "toBlob callback" /\ event'.file = CaptureFile) =>
              /\ Len(readers') = Len(readers) + 1
              /\ readers'[Len(readers')] = [file |-> CaptureFile, autoClassify |-> TRUE]
        /\ (event'.op = "onload" /\ event'.file = CaptureFile) =>
              InFlight' = InFlight + 1 ]_vars

\* C7: a file whose extension is not png, jpg or jpeg is rejected with the
\* InvalidFileType alert and nothing else changes: selectedFile, the preview,
\* the submit button, the mode, the pending decodes and the requests.
\* The extension is the one the name shows (Extension above); handleFile
\* validates the last piece of split('.'), which for a name without a dot
\* is the whole name.
C7_HandleFileOf(f) ==
    /\ event'.op \in {"handleDrop", "handleFileInputChange", "toBlob callback"}
    /\ event'.file = f

C7_InvalidFileRejected ==
    [][ \A f \in UserFiles \cup {CaptureFile} :
          (C7_HandleFileOf(f) /\ Extension(f) \notin ImageExtensions) =>
              /\ alert' = InvalidFileType
              /\ UNCHANGED <<uploadVars, cameraVars>> ]_vars

\* C8: once the decode of an accepted valid file has finished the mode is
\* PreviewReady (the preview shows the file, the helper text is no longer
\* shown, neither the camera interface nor the results panel is), selectedFile
\* is that file and the submit button is enabled (or busy with a request).
C8_AcceptEndsInPreviewReady ==
    [][ event'.op = "onload" =>
          /\ preview'.active /\ preview'.backgroundImage = event'.file
          /\ dropzoneText'.display = "none" \/ dropzoneText'.textContent # "helper"
          /\ ~CameraActive' /\ ~ResultShown'
          /\ selectedFile' = event'.file
          /\ ~submitBtn'.disabled \/ InFlight' > 0 ]_vars

C10_OneMode ==
    /\ ~(CameraActive /\ ResultShown)
    /\ ~(CameraActive /\ PreviewReady)
    /\ ~(ResultShown /\ PreviewReady)

\* C11: a failed camera start (getUserMedia rejected, or play() failing after
\* the stream was obtained) shows the camera alert, leaves the page outside
\* the camera mode with the preview, the form and the results panel as they
\* were, leaves cameraStream null and leaves the stream that start obtained
\* stopped, whatever other starts are pending or have succeeded.
C11_FailedPlayOf(s) ==
    event'.op = "play rejected" /\ s \in playPending /\ s \notin playPending'

C11_FailedStartCleansUp ==
    [][ /\ event'.op \in {"getUserMedia rejected", "play rejected"} =>
              /\ alert' = CameraError
              /\ cameraStream' = NoStream
              /\ ~CameraActive'
              /\ UNCHANGED <<preview, uploadForm, resultsPanel, selectedFile>>
        /\ \A s \in StreamIds : C11_FailedPlayOf(s) => s \notin liveStreams' ]_vars

\* C12: a request that settles with an error (a body with success = false, a
\* status that is not 2xx, or a thrown exception) shows an alert and changes
\* nothing of the mode: the results panel, the form, the preview, the label,
\* the helper text and the camera side are as they were, selectedFile is
\* retained, and no new request is issued.  A body that says why carries its
\* message into the alert.
C12_ErrorResponse(ok, data) ==
    \E i \in Slots : JsonResolve(i, ok, data) /\ ~(ok /\ data.success)

C12_Thrown == event'.op \in {"fetch rejected", "json rejected"}

C12_Frame ==
    /\ alert' # NoAlert
    /\ UNCHANGED <<selectedFile, preview, dropzoneText, uploadForm, resultsPanel,
                   predictionText, readers, cameraVars>>
    /\ InFlight' = InFlight - 1
    /\ \A k \in 1..Len(event'.calls) : event'.calls[k] # "fetch"

C12_ErrorsKeepMode ==
    [][ /\ C12_Thrown => C12_Frame
        /\ \A ok \in BOOLEAN, data \in Payloads :
              C12_ErrorResponse(ok, data) =>
                  /\ C12_Frame
                  /\ alert'[1] = "Classification Error: "
                  /\ data.error # "" => alert'[2] = data.error ]_vars

\* Witness of C12 (scenario D): the server answered "model unavailable"; the
\* alert carries it, the preview of the selected file is still shown and the
\* results panel is hidden.
C12_Witness ==
    /\ event.op = "json resolved"
    /\ alert = <<"Classification Error: ", "model unavailable">>
    /\ PreviewReady /\ ~ResultShown /\ ~CameraActive
    /\ selectedFile = UpperJpg /\ preview.backgroundImage = UpperJpg
    /\ uploadForm = "block"
    /\ InFlight = 0

\* C13: the results are shown exactly when a request settles with a 2xx
\* status and a body with success = true.  Then the results panel is shown in
\* place of the form, the preview is cleared and the label is the prediction
\* of the body.  No other step shows the results panel; in particular a body
\* with success = true under a status that is not 2xx, or a body with
\* success = false, does not.
C13_Response(ok, data) == \E i \in Slots : JsonResolve(i, ok, data)

C13_ResultShownIffSuccess ==
    [][ /\ \A ok \in BOOLEAN, data \in Payloads :
              C13_Response(ok, data) =>
                  IF ok /\ data.success
                  THEN /\ resultsPanel' = "flex" /\ uploadForm' = "none"
                       /\ ~preview'.active /\ preview'.backgroundImage = "none"
                       /\ predictionText' = data.prediction
                  ELSE UNCHANGED <<resultsPanel, uploadForm, preview, predictionText>>
        /\ (~ResultShown /\ ResultShown') =>
              \E data \in Payloads : data.success /\ C13_Response(TRUE, data) ]_vars

\* Witness of C13 (scenario C): the server answered HDPE with success; the
\* results panel shows HDPE in place of the form and the preview is cleared.
C13_Witness ==
    /\ event.op = "json resolved"
    /\ ResultShown /\ predictionText = "HDPE"
    /\ uploadForm = "none" /\ ~preview.active
    /\ selectedFile = UpperJpg

\* C14: a response whose body cannot be parsed as JSON is reported with the
\* "Classification Error" alert; the network-error alert is shown only when
\* the fetch call itself throws.
C14_UnparsableIsApplicationError ==
    [][ /\ event'.op = "json rejected" =>
              /\ Len(alert') > 0 /\ alert'[1] = "Classification Error: "
              /\ alert' # NetworkFailure
        /\ event'.op = "fetch rejected" => alert' = NetworkFailure
        /\ alert' = NetworkFailure => event'.op = "fetch rejected" ]_vars

\* C15: stopCamera is idempotent.  Called while cameraStream is null it stops
\* no track (no call of track.stop, the live streams are the same) and, when
\* the camera interface is not shown, changes nothing of the page; a second
\* call right after a first changes nothing.
C15_Calls(c) == \E k \in 1..Len(event'.calls) : event'.calls[k] = c

C15_StopIdempotent ==
    [][ /\ (C15_Calls("stopCamera") /\ cameraStream = NoStream) =>
              /\ ~C15_Calls("track.stop")
              /\ liveStreams' = liveStreams
              /\ cameraStream' = NoStream
              /\ ~CameraActive =>
                    UNCHANGED <<cameraInterface, dropzone, btnScan, cameraFeed,
                                preview, uploadForm, resultsPanel>>
        /\ (event.op = "stopCamera" /\ event'.op = "stopCamera") =>
              UNCHANGED <<uploadVars, cameraVars>> ]_vars

\* Witness of C15: stopCamera has just been called with no session while a
\* preview was shown, and nothing of the page moved.
C15_Witness ==
    /\ event = Event("stopCamera", NoFile, <<"stopCamera">>)
    /\ cameraStream = NoStream /\ liveStreams = {}
    /\ PreviewReady /\ ~CameraActive
    /\ dropzone = "flex" /\ btnScan = "block"

\* C16: the preview shows the selected file.  Whenever no decode is pending
\* and the mode is PreviewReady (and no other mode), the image of the preview
\* is selectedFile, in whatever order the decodes of valid files accepted one
\* after the other complete.
C16_ValidFiles ==
    {f \in UserFiles \cup {CaptureFile} : Extension(f) \in ImageExtensions}

C16_PreviewIsSelection ==
    ( /\ readers = <<>> /\ PreviewReady /\ ~CameraActive /\ ~ResultShown
      /\ selectedFile \in C16_ValidFiles
      /\ preview.backgroundImage \in C16_ValidFiles ) =>
        preview.backgroundImage = selectedFile

\* C17: the request issued when the decode of a file accepted with
\* autoClassify completes carries that file, whatever was accepted between
\* the accept and the completion of the decode.
C17_AutoClassifyOf(f) ==
    /\ event'.op = "onload" /\ event'.file = f
    /\ \E k \in 1..Len(event'.calls) : event'.calls[k] = "fetch"

C17_AutoClassifySendsCapture ==
    [][ \A f \in UserFiles \cup {CaptureFile} :
            C17_AutoClassifyOf(f) => formData.file = f ]_vars

\* C18: on a page whose submit button starts disabled, the submit button is
\* enabled only while a file is selected.
C18_EnabledImpliesSelected ==
    ~submitBtn.disabled => selectedFile # NoFile

\* Witness of C18: a request has failed, hideLoading has enabled the button
\* again and the file is still selected.
C18_Witness ==
    /\ event.op = "fetch rejected"
    /\ ~submitBtn.disabled
    /\ selectedFile = UpperJpg
    /\ htmlSubmitDisabled

\* C19: capturePhoto called while cameraStream is null does nothing: it draws
\* nothing, hands no file to handleFile, shows no alert and leaves
\* selectedFile, the mode and every other variable of the page as they were.
C19_CaptureWithoutSession ==
    [][ (event'.op = "capturePhoto" /\ cameraStream = NoStream) =>
            /\ event'.calls = <<>>
            /\ alert' = NoAlert
            /\ UNCHANGED <<uploadVars, cameraVars>> ]_vars

\* Witness of C19: capturePhoto has just returned at its first line, with no
\* session, while a file was selected and previewed.
C19_Witness ==
    /\ event = Event("capturePhoto", NoFile, <<>>)
    /\ cameraStream = NoStream /\ toBlobPending = <<>>
    /\ alert = NoAlert
    /\ selectedFile = UpperJpg /\ PreviewReady

\* C20: selectedFile is replaced only by an accept that was not rejected (it
\* becomes the accepted file) and cleared only by the reload.  No other step
\* (a rejected accept, classifyImage, displayResults, startCamera, stopCamera,
\* a decode, a capture) changes it, so a selected file stays selected until
\* the reload.  A click on the dropzone opens the file picker exactly while
\* nothing is selected.
C20_Accept ==
    /\ event'.op \in {"handleDrop", "handleFileInputChange", "toBlob callback"}
    /\ event'.file # NoFile
    /\ alert' = NoAlert

C20_SelectionOwnedByAccept ==
    [][ /\ selectedFile' # selectedFile =>
              \/ event'.op = "reload" /\ selectedFile' = NoFile
              \/ C20_Accept /\ selectedFile' = event'.file
        /\ (selectedFile # NoFile /\ event'.op # "reload") => selectedFile' # NoFile
        /\ C20_Accept => selectedFile' = event'.file
        /\ event'.op = "dropzoneClick" =>
              (event'.calls = <<"fileInput.click">>) = (selectedFile = NoFile) ]_vars

\* Witness of C20: png.txt has just been rejected while a.b.JPG was selected
\* and previewed, and a.b.JPG is still selected.
C20_Witness ==
    /\ event.op = "handleDrop" /\ event.file = PngTxt
    /\ alert = InvalidFileType
    /\ selectedFile = UpperJpg
    /\ preview.backgroundImage = UpperJpg

====
